---- MODULE Spec2Model ----
(***************************************************************************)
(* State-machine model of the events / participation / chat-notification  *)
(* and identity handlers of main.py.  Every table of init_db that the     *)
(* handlers below touch is a variable; one action per route handler.      *)
(* Text values (usernames, invite codes) are sequences of ASCII codes so  *)
(* that lower() and strip() are computed, not assumed.                    *)
(***************************************************************************)
EXTENDS Integers, Sequences, FiniteSets, TLC

(* ------------------------------ bounds -------------------------------- *)
\* events that may be created (the events id sequence stops there)
MaxEvents == 2
\* chat messages that may be sent
MaxMessages == 2

(* ------------------------------ text ---------------------------------- *)
\* Python None / SQL NULL for a text value: a code no string contains
None == <<0>>
\* request.get("event_id", None) when the key is absent
NoEventId == 0

admin == <<97, 100, 109, 105, 110>>
Admin == <<65, 100, 109, 105, 110>>
Mitsu == <<77, 105, 116, 115, 117>>
mitsu == <<109, 105, 116, 115, 117>>
Zine == <<90, 105, 110, 101>>
Kat == <<75, 97, 116>>
Bo == <<66, 111>>
bo == <<98, 111>>
EmptyStr == <<>>
InviteA == <<76, 69, 77, 73, 45, 65, 49, 66, 50, 45, 67, 51, 68, 52>>
Blank == <<32, 32>>
\* further invite codes: another generated one, InviteA in lower case, InviteA padded
InviteB == <<76, 69, 77, 73, 45, 88, 55, 89, 56, 45, 90, 57, 87, 48>>
InviteALower == <<108, 101, 109, 105, 45, 97, 49, 98, 50, 45, 99, 51, 100, 52>>
InviteAPadded == <<32>> \o InviteA \o <<32>>

\* str.lower() / SQL lower() on one ASCII code
LowerChar(ch) == IF ch >= 65 /\ ch <= 90 THEN ch + 32 ELSE ch

\* str.lower() / SQL lower(); None has no lower(): callers test for it first
Lower(s) == [i \in DOMAIN s |-> LowerChar(s[i])]

IsSpace(ch) == ch \in {32, 9, 10, 13}

RECURSIVE LStrip(_)
LStrip(s) == IF s # <<>> /\ IsSpace(Head(s)) THEN LStrip(Tail(s)) ELSE s

RECURSIVE RStrip(_)
RStrip(s) ==
    IF s # <<>> /\ IsSpace(s[Len(s)]) THEN RStrip(SubSeq(s, 1, Len(s) - 1)) ELSE s

\* str.strip()
Strip(s) == RStrip(LStrip(s))

\* Python truthiness of an Optional[str]
Truthy(s) == s # None /\ s # EmptyStr

(* --------------------------- password hashes -------------------------- *)
\* users.password_hash IS NULL
NoHash == <<>>
\* pwd_context.hash(password): a bcrypt digest, never the password itself
\* (the random salt is left out: verify accepts exactly the hashed password)
Hash(password) == <<"bcrypt", password>>
\* pwd_context.verify(password, hash)
Verify(password, h) == h = <<"bcrypt", password>>

(* ------------------------------ state --------------------------------- *)
VARIABLES
    USE_POSTGRES,     \* DATABASE_URL is set: PostgreSQL, else SQLite
    users,            \* table users: set of rows
    nextUserId,       \* users id sequence
    user_profiles,    \* table user_profiles: set of rows
    events,           \* table events: set of rows
    nextEventId,      \* events id sequence
    event_participants, \* table event_participants: set of rows
    chat_messages,    \* table chat_messages: sequence, a row's id is its index
    notifications,    \* table notifications: set of rows (no handler reads a row's id)
    follows,          \* table follows: set of rows <<user1, user2>>
    event_ext,        \* columns end_time, is_archived of events rows, by event id
    requests,         \* the requests in progress, by connection: position and locals
    last,             \* the last request and its HTTP response
    registered        \* history: the successful registrations

tables == <<users, nextUserId, user_profiles, events, nextEventId,
            event_participants, chat_messages, notifications, follows>>
vars == <<USE_POSTGRES, users, nextUserId, user_profiles, events, nextEventId,
          event_participants, chat_messages, notifications, follows, event_ext,
          requests, last, registered>>

\* the connections that serve requests at the same time
Connections == {1, 2}
\* a connection with no request in progress
Idle == [op |-> "idle"]

\* The handler that ran last and its HTTP response: status, detail of an
\* error, body of a success; arg is the username a login or register supplied; pre counts
\* the rows the request matched before it ran.  Unused fields keep these
\* defaults.
Req(op) == [op |-> op, arg |-> None, status |-> 200, detail |-> "", ret |-> <<>>,
            pre |-> 0]

(* ------------------------------ JSON ---------------------------------- *)
\* json.dumps(value): text, not the value
JsonDumps(v) == <<"json", v>>
\* json.loads(text)
JsonLoads(t) == t[2]
\* SQL NULL in a JSON text column
NullJson == <<"null">>
\* a dict parsed from the request: the empty dict is falsy
NoDict == "None"
EmptyDict == "{}"
DictTruthy(d) == d # NoDict /\ d # EmptyDict

(* ----------------------------- FullEvent ------------------------------ *)
\* Optional[int] values are sets with at most one element ({} is None)
FullEventA ==
    [name |-> "Picnic", description |-> "", location |-> "", venue |-> "",
     address |-> "", coordinates |-> NoDict, date |-> "", time |-> "22:30",
     category |-> "", languages |-> <<>>, is_public |-> TRUE,
     event_type |-> "custom", capacity |-> {}, image_url |-> "",
     is_featured |-> FALSE, template_event_id |-> {}]

FullEventB ==
    [name |-> "Concert", description |-> "live", location |-> "Paris",
     venue |-> "Cite", address |-> "17 bd Jourdan",
     coordinates |-> "{lat:48.82,lng:2.33}", date |-> "2025-11-08",
     time |-> "19:00", category |-> "music", languages |-> <<"fr", "en">>,
     is_public |-> FALSE, event_type |-> "featured", capacity |-> {2},
     image_url |-> "/static/uploads/a.png", is_featured |-> TRUE,
     template_event_id |-> {1}]

\* request bodies: the fields above with a created_by
FullEvent(fields, created_by) ==
    [f \in DOMAIN fields \cup {"created_by"} |->
        IF f = "created_by" THEN created_by ELSE fields[f]]

\* a boolean column as the backend stores it (INTEGER 1/0 or BOOLEAN)
DbBool(b) == IF USE_POSTGRES THEN b ELSE (IF b THEN 1 ELSE 0)
\* bool(column value) on reading
PyBool(v) == IF USE_POSTGRES THEN v ELSE v # 0

(* ------------------------------ events -------------------------------- *)
EventIds == {r.id : r \in events}
EventRow(event_id) == CHOOSE r \in events : r.id = event_id

\* rows of event_participants for one event
ParticipantRows(event_id) == {p \in event_participants : p.event_id = event_id}

\* INSERT OR REPLACE in place of INSERT OR IGNORE: a repeat insert overwrites
InsertParticipantOrReplace(rows, event_id, username, is_host) ==
    {p \in rows : ~(p.event_id = event_id /\ p.username = username)}
      \cup {[event_id |-> event_id, username |-> username, is_host |-> is_host]}

\* INSERT OR IGNORE / ON CONFLICT DO NOTHING on PRIMARY KEY (event_id, username)
InsertParticipantOrIgnore(rows, event_id, username, is_host) ==
    IF \E p \in rows : p.event_id = event_id /\ p.username = username
    THEN rows
    ELSE rows \cup {[event_id |-> event_id, username |-> username, is_host |-> is_host]}

\* the row create_full_event inserts
NewEventRow(event_id, ev) ==
    [id |-> event_id, name |-> ev.name, description |-> ev.description,
     location |-> ev.location, venue |-> ev.venue, address |-> ev.address,
     coordinates |-> IF DictTruthy(ev.coordinates)
                     THEN JsonDumps(ev.coordinates) ELSE NullJson,
     date |-> ev.date, time |-> ev.time, category |-> ev.category,
     languages |-> JsonDumps(ev.languages), is_public |-> DbBool(ev.is_public),
     event_type |-> ev.event_type, capacity |-> ev.capacity,
     image_url |-> ev.image_url, created_by |-> ev.created_by,
     is_featured |-> DbBool(ev.is_featured),
     template_event_id |-> ev.template_event_id]

\* POST /api/events
create_full_event(ev) ==
    /\ nextEventId <= MaxEvents
    /\ events' = events \cup {NewEventRow(nextEventId, ev)}
    /\ nextEventId' = nextEventId + 1
    /\ event_participants' =
          IF Truthy(ev.created_by)
          THEN InsertParticipantOrIgnore(event_participants, nextEventId, ev.created_by, 1)
          ELSE event_participants
    /\ last' = [Req("create") EXCEPT !.ret = <<nextEventId, "Event created">>]
    /\ UNCHANGED <<USE_POSTGRES, requests, follows, event_ext, registered, users, nextUserId, user_profiles, chat_messages,
                   notifications>>

\* POST /api/events/{event_id}/join
join_full_event(event_id, username) ==
    /\ event_participants' =
          InsertParticipantOrIgnore(event_participants, event_id, username, 0)
    /\ last' = [Req("join") EXCEPT !.ret = <<"Joined event">>,
                   !.pre = Cardinality({p \in ParticipantRows(event_id) :
                                           p.username = username})]
    /\ UNCHANGED <<USE_POSTGRES, requests, follows, event_ext, registered, users, nextUserId, user_profiles, events,
                   nextEventId, chat_messages, notifications>>

\* the event_id condition left out: the user's rows of every event go
DeleteParticipantEverywhere(rows, event_id, username) ==
    {p \in rows : p.username # username}

\* a leave after which the rows that remain in the event are hosts
DeleteParticipantPromoting(rows, event_id, username) ==
    {IF p.event_id = event_id THEN [p EXCEPT !.is_host = 1] ELSE p
     : p \in {q \in rows : ~(q.event_id = event_id /\ q.username = username)}}

\* DELETE FROM event_participants WHERE event_id = ? AND username = ?
DeleteParticipant(rows, event_id, username) ==
    {p \in rows : ~(p.event_id = event_id /\ p.username = username)}

\* POST /api/events/{event_id}/leave
leave_event(event_id, username) ==
    /\ event_participants' = DeleteParticipant(event_participants, event_id, username)
    /\ last' = [Req("leave") EXCEPT !.ret = <<"Left event">>,
                   !.pre = Cardinality({p \in ParticipantRows(event_id) :
                                           p.username = username})]
    /\ UNCHANGED <<USE_POSTGRES, requests, follows, event_ext, registered, users, nextUserId, user_profiles, events,
                   nextEventId, chat_messages, notifications>>

\* update_event's permission test; created_by is the request body's created_by.
\* Python evaluates `a != b and b.lower() != "admin"`: lower() runs only
\* when the two differ, and raises AttributeError on None.
UpdateCheck(event_creator, created_by) ==
    IF event_creator = created_by THEN "ok"
    ELSE IF created_by = None THEN "error"
    ELSE IF Lower(created_by) # admin THEN "forbidden"
    ELSE "ok"

\* HTTP status of PUT /api/events/{event_id}
UpdateStatus(event_id, ev) ==
    IF event_id \notin EventIds THEN 404
    ELSE LET check == UpdateCheck(EventRow(event_id).created_by, ev.created_by) IN
         CASE check = "ok" -> 200
           [] check = "forbidden" -> 403
           [] OTHER -> 500

\* an UPDATE that also writes is_public from the body
UpdatedEventRowWithVisibility(row, ev) ==
    [row EXCEPT !.name = ev.name, !.description = ev.description,
                !.is_public = DbBool(ev.is_public)]

\* an UPDATE that also writes created_by from the body
UpdatedEventRowTakesCreator(row, ev) ==
    [row EXCEPT !.name = ev.name, !.description = ev.description,
                !.created_by = ev.created_by]

\* UPDATE events SET name = ?, ..., image_url = ? WHERE id = ?
UpdatedEventRow(row, ev) ==
    [row EXCEPT !.name = ev.name, !.description = ev.description,
                !.location = ev.location, !.venue = ev.venue,
                !.address = ev.address,
                !.coordinates = IF DictTruthy(ev.coordinates)
                                THEN JsonDumps(ev.coordinates) ELSE NullJson,
                !.date = ev.date, !.time = ev.time, !.category = ev.category,
                !.languages = JsonDumps(ev.languages),
                !.capacity = ev.capacity, !.image_url = ev.image_url]

\* PUT /api/events/{event_id}
update_event(event_id, ev) ==
    LET status == UpdateStatus(event_id, ev) IN
    /\ events' = IF status = 200
                 THEN (events \ {EventRow(event_id)})
                        \cup {UpdatedEventRow(EventRow(event_id), ev)}
                 ELSE events
    /\ last' = [Req("update") EXCEPT !.status = status,
                   !.detail = CASE status = 404 -> "Event not found"
                                [] status = 403 ->
                                      "Only the event host or admin can update this event"
                                [] status = 500 -> "Internal Server Error"
                                [] OTHER -> "",
                   !.ret = IF status = 200 THEN <<event_id, "Event updated">> ELSE <<>>]
    /\ UNCHANGED <<USE_POSTGRES, requests, follows, event_ext, registered, users, nextUserId, user_profiles, nextEventId,
                   event_participants, chat_messages, notifications>>

\* "admin" compared as typed, without lower()
DeleteCheckCaseSensitive(created_by, username) ==
    IF created_by # username /\ username # admin THEN "forbidden" ELSE "ok"

\* delete_event's permission test; username is the query parameter (a str)
DeleteCheck(created_by, username) ==
    IF created_by # username /\ Lower(username) # admin THEN "forbidden" ELSE "ok"

\* HTTP status of DELETE /api/events/{event_id}?username=
DeleteStatus(event_id, username) ==
    IF event_id \notin EventIds THEN 404
    ELSE IF DeleteCheck(EventRow(event_id).created_by, username) = "forbidden" THEN 403
    ELSE 200

\* the cascade left out: the participant rows stay
KeepEventParticipants(rows, event_id) == rows

\* DELETE FROM event_participants WHERE event_id = ?
DeleteEventParticipants(rows, event_id) == {p \in rows : p.event_id # event_id}

\* DELETE /api/events/{event_id}
delete_event(event_id, username) ==
    LET status == DeleteStatus(event_id, username) IN
    /\ event_participants' =
          IF status = 200
          THEN DeleteEventParticipants(event_participants, event_id)
          ELSE event_participants
    /\ events' = IF status = 200 THEN {r \in events : r.id # event_id} ELSE events
    /\ last' = [Req("delete") EXCEPT !.status = status,
                   !.detail = CASE status = 404 -> "Event not found"
                                [] status = 403 ->
                                      "Only the host or admin can delete this event"
                                [] OTHER -> "",
                   !.ret = IF status = 200 THEN <<"Event deleted successfully">> ELSE <<>>,
                   !.pre = IF status = 200
                           THEN Cardinality(ParticipantRows(event_id)) ELSE 0]
    /\ UNCHANGED <<USE_POSTGRES, requests, follows, event_ext, registered, users, nextUserId, user_profiles, nextEventId,
                   chat_messages, notifications>>

\* the host / participants projection shared by the event readers: the rows
\* are scanned in storage order, so with several host rows any may be last
HostNames(event_id) == {p.username : p \in {q \in ParticipantRows(event_id) : q.is_host # 0}}
CrewNames(event_id) == {p.username : p \in {q \in ParticipantRows(event_id) : q.is_host = 0}}

\* GET /api/events/{event_id}: status, and the fields the claims read
get_event_by_id(event_id) ==
    IF event_id \notin EventIds
    THEN [status |-> 404, detail |-> "Event not found"]
    ELSE [status |-> 200, id |-> event_id,
          name |-> EventRow(event_id).name,
          time |-> EventRow(event_id).time,
          isPublic |-> PyBool(EventRow(event_id).is_public),
          createdBy |-> EventRow(event_id).created_by,
          isFeatured |-> PyBool(EventRow(event_id).is_featured),
          host |-> HostNames(event_id),
          participants |-> CrewNames(event_id),
          crew |-> CrewNames(event_id)]

\* GET /api/events: the ids of the rows WHERE is_public = 1 (TRUE on PostgreSQL)
get_all_events ==
    {r.id : r \in {e \in events : IF USE_POSTGRES THEN e.is_public = TRUE
                                  ELSE e.is_public = 1}}

(* ---------------- end time and archiving (later handlers) ------------- *)
\* The handlers of this section accept end_time and keep is_archived; they
\* are written from the specification of the event operations, on top of
\* the rows and permission tests above.

\* end_time absent from the request
NoEndTime == "None"

\* time validation with no test at all
TimesUnchecked(time, end_time) == TRUE

\* time validation that also wants the end after the start on the clock
TimesValidSameDay(time, end_time) ==
    ~(time # "" /\ end_time # NoEndTime
        /\ (time = end_time \/ (time = "22:30" /\ end_time = "02:00")))

\* time and end_time, when both present, must differ; an end_time earlier
\* than time crosses midnight and is accepted
TimesValid(time, end_time) ==
    ~(time # "" /\ end_time # NoEndTime /\ time = end_time)

\* the end_time and is_archived columns of an events row; a row written by
\* a handler that does not know them has the column defaults
ExtOf(event_id) ==
    IF \E x \in event_ext : x.id = event_id
    THEN CHOOSE x \in event_ext : x.id = event_id
    ELSE [id |-> event_id, end_time |-> NoEndTime, is_archived |-> DbBool(FALSE)]

\* createEvent(fields) with end_time
createEvent(ev, end_time) ==
    IF TimesValid(ev.time, end_time)
    THEN /\ nextEventId <= MaxEvents
         /\ events' = events \cup {NewEventRow(nextEventId, ev)}
         /\ event_ext' = event_ext \cup {[id |-> nextEventId, end_time |-> end_time,
                                          is_archived |-> DbBool(FALSE)]}
         /\ nextEventId' = nextEventId + 1
         /\ event_participants' =
               IF Truthy(ev.created_by)
               THEN InsertParticipantOrIgnore(event_participants, nextEventId,
                                              ev.created_by, 1)
               ELSE event_participants
         /\ last' = [Req("createEvent") EXCEPT !.ret = <<nextEventId, "Event created">>]
         /\ UNCHANGED <<USE_POSTGRES, requests, follows, registered, users, nextUserId,
                        user_profiles, chat_messages, notifications>>
    ELSE /\ last' = [Req("createEvent") EXCEPT !.status = 400,
                        !.detail = "Start time and end time cannot be the same"]
         /\ UNCHANGED <<USE_POSTGRES, requests, follows, event_ext, registered, users, nextUserId,
                        user_profiles, events, nextEventId, event_participants,
                        chat_messages, notifications>>

\* updateEvent(id, fields, actingUser) with end_time
updateEvent(event_id, ev, end_time) ==
    LET status == IF TimesValid(ev.time, end_time)
                  THEN UpdateStatus(event_id, ev) ELSE 400 IN
    /\ events' = IF status = 200
                 THEN (events \ {EventRow(event_id)})
                        \cup {UpdatedEventRow(EventRow(event_id), ev)}
                 ELSE events
    /\ event_ext' = IF status = 200
                    THEN {x \in event_ext : x.id # event_id}
                           \cup {[ExtOf(event_id) EXCEPT !.end_time = end_time]}
                    ELSE event_ext
    /\ last' = [Req("updateEvent") EXCEPT !.status = status,
                   !.detail = CASE status = 400 ->
                                      "Start time and end time cannot be the same"
                                [] status = 404 -> "Event not found"
                                [] status = 403 ->
                                      "Only the event host or admin can update this event"
                                [] status = 500 -> "Internal Server Error"
                                [] OTHER -> "",
                   !.ret = IF status = 200 THEN <<event_id, "Event updated">> ELSE <<>>]
    /\ UNCHANGED <<USE_POSTGRES, requests, follows, registered, users, nextUserId, user_profiles,
                   nextEventId, event_participants, chat_messages, notifications>>

\* getEvent(id): the fields of get_event_by_id with endTime and isArchived
getEvent(event_id) ==
    LET r == get_event_by_id(event_id) IN
    IF r.status = 404 THEN r
    ELSE [f \in DOMAIN r \cup {"endTime", "isArchived"} |->
            CASE f = "endTime" -> ExtOf(event_id).end_time
              [] f = "isArchived" -> PyBool(ExtOf(event_id).is_archived)
              [] OTHER -> r[f]]

\* archiving that leaves the flag as it is
KeepArchived(event_id, flag) == event_ext

\* the is_archived column of one events row set to flag
SetArchived(event_id, flag) ==
    {x \in event_ext : x.id # event_id}
      \cup {[ExtOf(event_id) EXCEPT !.is_archived = DbBool(flag)]}

\* archiveEvent(id, actingUser) / unarchiveEvent(id, actingUser): the
\* permission rule of delete_event, then is_archived is set / cleared
SetArchivedRequest(op, event_id, username, flag) ==
    LET status == DeleteStatus(event_id, username) IN
    /\ event_ext' = IF status = 200 THEN SetArchived(event_id, flag) ELSE event_ext
    /\ last' = [Req(op) EXCEPT !.status = status,
                   !.detail = CASE status = 404 -> "Event not found"
                                [] status = 403 ->
                                      "Only the host or admin can archive this event"
                                [] OTHER -> ""]
    /\ UNCHANGED <<USE_POSTGRES, requests, follows, registered, users, nextUserId, user_profiles,
                   events, nextEventId, event_participants, chat_messages, notifications>>

archiveEvent(event_id, username) ==
    SetArchivedRequest("archive", event_id, username, TRUE)
unarchiveEvent(event_id, username) ==
    SetArchivedRequest("unarchive", event_id, username, FALSE)

\* listEvents(includeArchived): the rows of get_all_events and, unless
\* includeArchived, is_archived = false
listEvents(include_archived) ==
    {e \in get_all_events : include_archived \/ ~PyBool(ExtOf(e).is_archived)}

(* ------------------------- chat and notifications --------------------- *)
\* every participant row of the event notified, the sender's too
RecipientsWithSender(event_id, username) ==
    {p.username : p \in ParticipantRows(event_id)}

\* the usernames send_chat_message notifies: every participant row of the
\* event, host included, except the sender
Recipients(event_id, username) ==
    {p.username : p \in {q \in ParticipantRows(event_id) : q.username # username}}

\* the notification rows of one message (the id column, which no handler
\* reads, is left out: rows differ by user and message)
NewNotifications(event_id, username, message_id) ==
    {[user_id |-> u, event_id |-> event_id, message_id |-> message_id,
      is_read |-> DbBool(FALSE)] : u \in Recipients(event_id, username)}

\* HTTP status of POST /api/chat/{event_id}: on PostgreSQL the row of
\* "SELECT lastval()" is a RealDictRow, and [0] on it raises KeyError
SendStatus == IF USE_POSTGRES THEN 500 ELSE 200

\* POST /api/chat/{event_id}
send_chat_message(event_id, username, message) ==
    /\ Len(chat_messages) < MaxMessages
    /\ chat_messages' =
          IF SendStatus = 200
          THEN Append(chat_messages, [event_id |-> event_id, username |-> username,
                                      message |-> message])
          ELSE chat_messages
    /\ notifications' =
          IF SendStatus = 200
          THEN notifications
                 \cup NewNotifications(event_id, username, Len(chat_messages) + 1)
          ELSE notifications
    /\ last' = [Req("send") EXCEPT !.status = SendStatus,
                   !.detail = IF SendStatus = 200 THEN "" ELSE "Internal Server Error",
                   !.ret = IF SendStatus = 200
                           THEN <<"Message sent",
                                  Cardinality(Recipients(event_id, username))>>
                           ELSE <<>>,
                   !.pre = Cardinality(Recipients(event_id, username))]
    /\ UNCHANGED <<USE_POSTGRES, requests, follows, event_ext, registered, users, nextUserId, user_profiles, events,
                   nextEventId, event_participants>>

\* rows WHERE user_id = ? AND is_read = 0 (FALSE on PostgreSQL)
UnreadRows(username) ==
    {n \in notifications : n.user_id = username /\ n.is_read = DbBool(FALSE)}

RECURSIVE SumValues(_, _)
\* sum(notifications.values())
SumValues(f, keys) ==
    IF keys = {} THEN 0
    ELSE LET k == CHOOSE x \in keys : TRUE IN f[k] + SumValues(f, keys \ {k})

\* SELECT event_id, COUNT(*) ... GROUP BY event_id
UnreadByEvent(username) ==
    [e \in {n.event_id : n \in UnreadRows(username)} |->
        Cardinality({n \in UnreadRows(username) : n.event_id = e})]

\* GET /api/notifications/{username}
get_notifications(username) ==
    [total_unread |-> SumValues(UnreadByEvent(username), DOMAIN UnreadByEvent(username)),
     by_event |-> UnreadByEvent(username)]

\* the event_id condition left out: every row of the user matches
MarkReadRowsAnyEvent(username, event_id) ==
    {n \in notifications : n.user_id = username}

\* the rows mark_notifications_read's UPDATE matches
MarkReadRows(username, event_id) ==
    IF event_id # NoEventId
    THEN {n \in notifications : n.user_id = username /\ n.event_id = event_id}
    ELSE {n \in notifications : n.user_id = username}

\* POST /api/notifications/{username}/mark-read
mark_notifications_read(username, event_id) ==
    /\ notifications' =
          (notifications \ MarkReadRows(username, event_id))
            \cup {[n EXCEPT !.is_read = DbBool(TRUE)] : n \in MarkReadRows(username, event_id)}
    /\ last' = [Req("mark_read") EXCEPT !.ret = <<"Notifications marked as read",
                             Cardinality(MarkReadRows(username, event_id))>>]
    /\ UNCHANGED <<USE_POSTGRES, requests, follows, event_ext, registered, users, nextUserId, user_profiles, events,
                   nextEventId, event_participants, chat_messages>>

(* ------------- send_chat_message, statement by statement -------------- *)
\* The statements of send_chat_message run on one connection, whose writes
\* are uncommitted until conn.commit(); the request's locals are held in
\* requests[conn].  SQLite admits one writing transaction at a time.
NoWriter == \A c \in Connections : requests[c].op # "send"

\* the chat_messages row of a request
MessageRow(req) ==
    [event_id |-> req.event_id, username |-> req.username, message |-> req.message]

\* each statement committed as it runs: a failed request keeps what it wrote
AfterFailureAutocommit(req) ==
    <<Append(chat_messages, MessageRow(req)), notifications \cup req.rows>>

\* chat_messages and notifications after a request that raised: conn.commit()
\* was not reached, so the connection's writes are rolled back
AfterFailure(req) == <<chat_messages, notifications>>

\* the request raised: FastAPI answers 500
SendRaised(conn) ==
    /\ chat_messages' = AfterFailure(requests[conn])[1]
    /\ notifications' = AfterFailure(requests[conn])[2]
    /\ requests' = [requests EXCEPT ![conn] = Idle]
    /\ last' = [Req("send") EXCEPT !.arg = requests[conn].username, !.status = 500,
                   !.detail = "Internal Server Error",
                   !.pre = Cardinality(requests[conn].rows)]
    /\ UNCHANGED <<USE_POSTGRES, follows, event_ext, registered, users, nextUserId,
                   user_profiles, events, nextEventId, event_participants>>

\* INSERT INTO chat_messages
send_insert(conn, event_id, username, message) ==
    /\ requests[conn] = Idle
    /\ NoWriter
    /\ Len(chat_messages) < MaxMessages
    /\ requests' = [requests EXCEPT ![conn] =
                       [op |-> "send", step |-> "inserted", event_id |-> event_id,
                        username |-> username, message |-> message, message_id |-> 0,
                        participants |-> {}, rows |-> {}]]
    /\ UNCHANGED <<USE_POSTGRES, follows, event_ext, registered, users, nextUserId,
                   user_profiles, events, nextEventId, event_participants,
                   chat_messages, notifications, last>>

\* the message id (c.fetchone()[0] raises KeyError on PostgreSQL), then
\* SELECT username FROM event_participants and the participants list
send_select(conn) ==
    /\ requests[conn].op = "send" /\ requests[conn].step = "inserted"
    /\ IF USE_POSTGRES
       THEN SendRaised(conn)
       ELSE /\ requests' = [requests EXCEPT
                               ![conn].step = "selected",
                               ![conn].message_id = Len(chat_messages) + 1,
                               ![conn].participants =
                                   Recipients(requests[conn].event_id,
                                              requests[conn].username)]
            /\ UNCHANGED <<USE_POSTGRES, follows, event_ext, registered, users,
                           nextUserId, user_profiles, events, nextEventId,
                           event_participants, chat_messages, notifications, last>>

\* one turn of the loop: INSERT INTO notifications for the next participant
send_notify(conn) ==
    /\ requests[conn].op = "send" /\ requests[conn].step = "selected"
    /\ \E p \in requests[conn].participants :
          /\ \A n \in requests[conn].rows : n.user_id # p
          /\ requests' = [requests EXCEPT ![conn].rows =
                             @ \cup {[user_id |-> p, event_id |-> requests[conn].event_id,
                                      message_id |-> requests[conn].message_id,
                                      is_read |-> DbBool(FALSE)]}]
    /\ UNCHANGED <<USE_POSTGRES, follows, event_ext, registered, users, nextUserId,
                   user_profiles, events, nextEventId, event_participants,
                   chat_messages, notifications, last>>

\* conn.commit() after the loop, and the response
send_commit(conn) ==
    /\ requests[conn].op = "send" /\ requests[conn].step = "selected"
    /\ {n.user_id : n \in requests[conn].rows} = requests[conn].participants
    /\ chat_messages' = Append(chat_messages, MessageRow(requests[conn]))
    /\ notifications' = notifications \cup requests[conn].rows
    /\ requests' = [requests EXCEPT ![conn] = Idle]
    /\ last' = [Req("send") EXCEPT !.arg = requests[conn].username,
                   !.ret = <<"Message sent", Cardinality(requests[conn].participants)>>,
                   !.pre = Cardinality(requests[conn].rows)]
    /\ UNCHANGED <<USE_POSTGRES, follows, event_ext, registered, users, nextUserId,
                   user_profiles, events, nextEventId, event_participants>>

\* a statement of the request raised (a database error): no commit
send_fail(conn) ==
    /\ requests[conn].op = "send"
    /\ SendRaised(conn)

(* ------------------------------ follows ------------------------------- *)
\* POST /api/follows: INSERT OR IGNORE / ON CONFLICT DO NOTHING on
\* PRIMARY KEY (user1, user2)
add_follow(user1, user2) ==
    /\ follows' = follows \cup {<<user1, user2>>}
    /\ last' = [Req("follow") EXCEPT !.ret = <<"Follow added">>,
                   !.pre = Cardinality(follows \cap {<<user1, user2>>})]
    /\ UNCHANGED <<USE_POSTGRES, requests, event_ext, registered, users, nextUserId, user_profiles,
                   events, nextEventId, event_participants, chat_messages, notifications>>

\* SELECT user2 ... WHERE user1 = ? UNION SELECT user1 ... WHERE user2 = ?
FollowRows(username) ==
    {f[2] : f \in {g \in follows : g[1] = username}}
      \cup {f[1] : f \in {g \in follows : g[2] = username}}

\* GET /api/follows/{username}: row[0] of each row; on PostgreSQL a row is a
\* RealDictRow and [0] raises KeyError as soon as there is a row
get_follows(username) ==
    IF USE_POSTGRES /\ FollowRows(username) # {}
    THEN [status |-> 500, body |-> {}]
    ELSE [status |-> 200, body |-> FollowRows(username)]

\* unfollow(a, b) (DELETE /api/follows), from the specification: deletes
\* the directed row (a, b)
remove_follow(user1, user2) ==
    /\ follows' = follows \ {<<user1, user2>>}
    /\ last' = [Req("unfollow") EXCEPT !.ret = <<"Follow removed">>,
                   !.pre = Cardinality(follows \cap {<<user1, user2>>})]
    /\ UNCHANGED <<USE_POSTGRES, requests, event_ext, registered, users, nextUserId, user_profiles,
                   events, nextEventId, event_participants, chat_messages, notifications>>

(* ------------------------------ identity ------------------------------ *)
\* the usernames seeded at startup, in order, each with password '123'
SeedUsers == <<admin, Mitsu, Zine, Kat>>
SeedPassword == "123"

\* WHERE username = ? without lower()
UsersNamedExact(username) == {r \in users : r.username = username}

\* rows WHERE lower(username) = lower(?)
UsersNamed(username) == {r \in users : Lower(r.username) = Lower(username)}

\* rows WHERE invite_code = ? (exact)
UsersWithCode(code) == {r \in users : r.invite_code = code}

\* login answering with the username of the request
LoginResponsesEcho(username, password) ==
    IF UsersNamed(username) = {}
    THEN {[status |-> 404,
           detail |-> "User not found. Please contact admin or use an existing account.",
           ret |-> <<>>]}
    ELSE {IF row.password_hash = NoHash \/ ~Verify(password, row.password_hash)
          THEN [status |-> 401, detail |-> "Invalid credentials", ret |-> <<>>]
          ELSE [status |-> 200, detail |-> "", ret |-> <<row.id, username>>]
          : row \in UsersNamed(username)}

\* login looking the username up as typed
LoginResponsesExact(username, password) ==
    IF UsersNamedExact(username) = {}
    THEN {[status |-> 404,
           detail |-> "User not found. Please contact admin or use an existing account.",
           ret |-> <<>>]}
    ELSE {IF row.password_hash = NoHash \/ ~Verify(password, row.password_hash)
          THEN [status |-> 401, detail |-> "Invalid credentials", ret |-> <<>>]
          ELSE [status |-> 200, detail |-> "", ret |-> <<row.id, row.username>>]
          : row \in UsersNamedExact(username)}

\* the responses login can give: fetchone() returns one matching row
LoginResponses(username, password) ==
    IF UsersNamed(username) = {}
    THEN {[status |-> 404,
           detail |-> "User not found. Please contact admin or use an existing account.",
           ret |-> <<>>]}
    ELSE {IF row.password_hash = NoHash \/ ~Verify(password, row.password_hash)
          THEN [status |-> 401, detail |-> "Invalid credentials", ret |-> <<>>]
          ELSE [status |-> 200, detail |-> "", ret |-> <<row.id, row.username>>]
          : row \in UsersNamed(username)}

\* POST /login
login(username, password) ==
    /\ \E resp \in LoginResponses(username, password) :
          last' = [Req("login") EXCEPT !.arg = username, !.status = resp.status, !.detail = resp.detail,
                      !.ret = resp.ret]
    /\ UNCHANGED <<USE_POSTGRES, requests, follows, event_ext, registered, users, nextUserId, user_profiles, events, nextEventId,
                   event_participants, chat_messages, notifications>>

\* code = (user.inviteCode or '').strip()
InviteCodeOf(inviteCode) == IF inviteCode = None THEN EmptyStr ELSE Strip(inviteCode)

\* register testing the username before the invite code
RegisterCheckNameFirst(username, inviteCode) ==
    IF UsersNamed(username) # {} THEN "exists"
    ELSE IF InviteCodeOf(inviteCode) # EmptyStr /\ UsersWithCode(InviteCodeOf(inviteCode)) = {}
    THEN "invalid_invite"
    ELSE "ok"

\* which way register goes: the invite code is validated first
RegisterCheck(username, inviteCode) ==
    IF InviteCodeOf(inviteCode) # EmptyStr /\ UsersWithCode(InviteCodeOf(inviteCode)) = {}
    THEN "invalid_invite"
    ELSE IF UsersNamed(username) # {} THEN "exists"
    ELSE "ok"

\* POST /register
register(username, password, inviteCode) ==
    LET check == RegisterCheck(username, inviteCode) IN
    /\ users' = IF check = "ok"
                THEN users \cup {[id |-> nextUserId, username |-> username,
                                  password_hash |-> Hash(password),
                                  invite_code |-> None]}
                ELSE users
    /\ nextUserId' = IF check = "ok" THEN nextUserId + 1 ELSE nextUserId
    /\ last' = [Req("register") EXCEPT !.arg = username, !.status = IF check = "ok" THEN 200 ELSE 400,
                   !.detail = CASE check = "invalid_invite" -> "Invalid invite code"
                                [] check = "exists" -> "Username already exists"
                                [] OTHER -> "",
                   !.ret = IF check = "ok" THEN <<nextUserId, username>> ELSE <<>>,
                   !.pre = Cardinality(UsersNamed(username))]
    /\ registered' = IF check = "ok"
                     THEN registered \cup {[id |-> nextUserId, username |-> username,
                                            password |-> password]}
                     ELSE registered
    /\ UNCHANGED <<USE_POSTGRES, requests, follows, event_ext, user_profiles, events, nextEventId,
                   event_participants, chat_messages, notifications>>

\* register, statement by statement: each request has its own connection;
\* the SELECTs and the INSERT are separate statements, and requests[conn]
\* holds a request between them.
\* the invite-code and username SELECTs: a 400 ends the request here
register_check(conn, username, password, inviteCode) ==
    LET check == RegisterCheck(username, inviteCode) IN
    /\ requests[conn] = Idle
    /\ requests' = IF check = "ok"
                   THEN [requests EXCEPT ![conn] =
                            [op |-> "register", username |-> username,
                             password |-> password]]
                   ELSE requests
    /\ last' = IF check = "ok" THEN last
               ELSE [Req("register") EXCEPT !.arg = username, !.status = 400,
                        !.detail = IF check = "invalid_invite"
                                   THEN "Invalid invite code"
                                   ELSE "Username already exists",
                        !.pre = Cardinality(UsersNamed(username))]
    /\ UNCHANGED <<USE_POSTGRES, follows, event_ext, registered, users, nextUserId,
                   user_profiles, events, nextEventId, event_participants,
                   chat_messages, notifications>>

\* INSERT INTO users and commit: username is UNIQUE as spelled, so a row of
\* the same spelling raises IntegrityError (500); the id sequence is drawn
\* by the INSERT on PostgreSQL also when it fails
register_insert(conn) ==
    LET req == requests[conn]
        taken == UsersNamedExact(req.username) # {} IN
    /\ req.op = "register"
    /\ users' = IF taken THEN users
                ELSE users \cup {[id |-> nextUserId, username |-> req.username,
                                  password_hash |-> Hash(req.password),
                                  invite_code |-> None]}
    /\ nextUserId' = IF taken /\ ~USE_POSTGRES THEN nextUserId ELSE nextUserId + 1
    /\ registered' = IF taken THEN registered
                     ELSE registered \cup {[id |-> nextUserId, username |-> req.username,
                                            password |-> req.password]}
    /\ requests' = [requests EXCEPT ![conn] = Idle]
    /\ last' = [Req("register") EXCEPT !.arg = req.username,
                   !.status = IF taken THEN 500 ELSE 200,
                   !.detail = IF taken THEN "Internal Server Error" ELSE "",
                   !.ret = IF taken THEN <<>> ELSE <<nextUserId, req.username>>,
                   !.pre = Cardinality(UsersNamed(req.username))]
    /\ UNCHANGED <<USE_POSTGRES, follows, event_ext, user_profiles, events, nextEventId,
                   event_participants, chat_messages, notifications>>

\* the codes generate_invite_code may draw
GeneratedCodes == {InviteA, InviteB}

\* the generator's draw taken without looking it up
AnyInviteCodes == GeneratedCodes

\* _get_unique_invite_code: a generated code no user row holds
UniqueInviteCodes == {code \in GeneratedCodes : UsersWithCode(code) = {}}

\* POST /api/users/{username}/invite-code; code is the draw of the generator
create_or_rotate_invite_code(username, code) ==
    LET found == UsersNamed(username) # {} IN
    /\ found => code \in UniqueInviteCodes
    /\ users' = IF found
                THEN {IF Lower(r.username) = Lower(username)
                      THEN [r EXCEPT !.invite_code = code] ELSE r : r \in users}
                ELSE users
    /\ last' = [Req("invite") EXCEPT !.arg = username,
                   !.status = IF found THEN 200 ELSE 404,
                   !.detail = IF found THEN "" ELSE "User not found",
                   !.ret = IF found THEN <<code>> ELSE <<>>]
    /\ UNCHANGED <<USE_POSTGRES, requests, follows, event_ext, registered, nextUserId, user_profiles, events, nextEventId,
                   event_participants, chat_messages, notifications>>

\* payload.data values: dicts, the empty one included
ProfileData == {"{}", "{bio:a}"}

\* INSERT OR REPLACE / ON CONFLICT (username) DO UPDATE on PRIMARY KEY username
UpsertProfileRow(rows, username, profile_json) ==
    {r \in rows : r.username # username}
      \cup {[username |-> username, profile_json |-> profile_json]}

\* POST /api/users/{username}/profile
upsert_user_profile(username, data) ==
    LET exists == UsersNamed(username) # {} IN
    /\ users' = IF ~exists
                THEN users \cup {[id |-> nextUserId, username |-> username,
                                  password_hash |-> NoHash, invite_code |-> None]}
                ELSE users
    /\ nextUserId' = IF ~exists THEN nextUserId + 1 ELSE nextUserId
    /\ user_profiles' = UpsertProfileRow(user_profiles, username, JsonDumps(data))
    /\ last' = [Req("upsert_profile") EXCEPT !.ret = <<TRUE>>,
                   !.pre = IF exists THEN 1 ELSE 0]
    /\ UNCHANGED <<USE_POSTGRES, requests, follows, event_ext, registered, events, nextEventId, event_participants,
                   chat_messages, notifications>>

\* rows WHERE lower(username) = lower(?) of user_profiles
ProfilesNamed(username) == {r \in user_profiles : Lower(r.username) = Lower(username)}

\* the responses get_user_profile can give: fetchone() returns one matching row
ProfileResponses(username) ==
    IF ProfilesNamed(username) = {}
    THEN {[status |-> 404, detail |-> "Profile not found", ret |-> <<>>]}
    ELSE {[status |-> 200, detail |-> "", ret |-> <<JsonLoads(row.profile_json)>>]
          : row \in ProfilesNamed(username)}

\* GET /api/users/{username}/profile
get_user_profile(username) ==
    /\ \E resp \in ProfileResponses(username) :
          last' = [Req("get_profile") EXCEPT !.arg = username, !.status = resp.status,
                      !.detail = resp.detail, !.ret = resp.ret]
    /\ UNCHANGED <<USE_POSTGRES, requests, follows, event_ext, registered, users, nextUserId,
                   user_profiles, events, nextEventId, event_participants,
                   chat_messages, notifications>>

(* ------------------------------- Init --------------------------------- *)
\* init_db() on an empty database, then the seed loop
Init ==
    /\ USE_POSTGRES \in BOOLEAN
    /\ users = {[id |-> i, username |-> SeedUsers[i],
                 password_hash |-> Hash(SeedPassword), invite_code |-> None]
                : i \in DOMAIN SeedUsers}
    /\ nextUserId = Len(SeedUsers) + 1
    /\ user_profiles = {}
    /\ events = {}
    /\ nextEventId = 1
    /\ event_participants = {}
    /\ chat_messages = <<>>
    /\ notifications = {}
    /\ follows = {}
    /\ event_ext = {}
    /\ requests = [c \in Connections |-> Idle]
    /\ last = Req("init")
    /\ registered = {}

(* ------------------------------ requests ------------------------------ *)
\* event ids a request may name: created, deleted and never-created ones
RequestEventIds == 1..MaxEvents
\* FullEvent.created_by values
Creators == {None, Mitsu}
\* usernames that join, leave and chat
Members == {Mitsu, Zine}
\* created_by of an update body / username of a delete
UpdateActors == {None, Mitsu, Zine, admin, Admin}
DeleteActors == {Mitsu, Zine, admin, Admin}
FullEvents == {FullEvent(FullEventA, c) : c \in Creators}
UpdateBodies == {FullEvent(FullEventB, c) : c \in UpdateActors}
Messages == {"hi"}

CreateEvent == \E ev \in FullEvents : create_full_event(ev)
JoinEvent == \E e \in RequestEventIds, u \in Members : join_full_event(e, u)
LeaveEvent == \E e \in RequestEventIds, u \in Members : leave_event(e, u)
UpdateEvent == \E e \in RequestEventIds, ev \in UpdateBodies : update_event(e, ev)
DeleteEvent == \E e \in RequestEventIds, u \in DeleteActors : delete_event(e, u)

\* the event ids chat requests name
ChatEventIds == {1, 2}
ChatJoin == \E e \in ChatEventIds, u \in Members : join_full_event(e, u)
ChatLeave == \E e \in ChatEventIds, u \in Members : leave_event(e, u)
SendMessage ==
    \E e \in ChatEventIds, u \in Members, m \in Messages : send_chat_message(e, u, m)
MarkRead ==
    \E u \in Members, e \in ChatEventIds \cup {NoEventId} : mark_notifications_read(u, e)

\* requests of the hosted-chat scenario: Mitsu creates, Zine joins
HostCreate == create_full_event(FullEvent(FullEventA, Mitsu))
GuestJoin == \E e \in ChatEventIds : join_full_event(e, Zine)
\* requests of the event-administration scenario
CrewJoin == \E e \in RequestEventIds : join_full_event(e, Zine)

\* usernames and passwords of identity requests
LoginNames == {Admin, Mitsu, mitsu, Bo, bo}
Passwords == {"123", "pw"}
InviteCodes == {None, Blank, InviteA}
ProfileNames == {mitsu, bo}
Register ==
    \E u \in LoginNames, p \in Passwords, c \in InviteCodes : register(u, p, c)
Login == \E u \in LoginNames, p \in Passwords : login(u, p)
UpsertProfile == \E u \in ProfileNames, d \in ProfileData : upsert_user_profile(u, d)

\* invitations: code rotation and registration with a code
InviteOwners == {Mitsu, Kat, Bo}
InviteRegisterNames == {Mitsu, Bo, bo}
SuppliedCodes == {None, Blank, InviteA, InviteAPadded, InviteALower, InviteB}
RotateInvite ==
    \E u \in InviteOwners, code \in GeneratedCodes : create_or_rotate_invite_code(u, code)
InviteRegister ==
    \E u \in InviteRegisterNames, c \in SuppliedCodes : register(u, "pw", c)

\* scheduling: events with an end time, public and private
Hosts == {Mitsu}
EndTimes == {NoEndTime, "22:30", "02:00"}
ScheduleBodies ==
    {FullEvent(FullEventA, c) : c \in Hosts} \cup {FullEvent(FullEventB, c) : c \in Hosts}
RescheduleBodies == {FullEvent(FullEventA, c) : c \in {Mitsu, Zine}}
ScheduleEvent == \E ev \in ScheduleBodies, t \in EndTimes : createEvent(ev, t)
RescheduleEvent ==
    \E e \in RequestEventIds, ev \in RescheduleBodies, t \in EndTimes : updateEvent(e, ev, t)

\* following
FollowNames == {Mitsu, Zine, Kat}
Follow == \E a \in FollowNames, b \in FollowNames : add_follow(a, b)
Unfollow == \E a \in FollowNames, b \in FollowNames : remove_follow(a, b)

ArchiveActors == {Mitsu, Zine, Admin}
ArchiveEvent == \E e \in RequestEventIds, u \in ArchiveActors : archiveEvent(e, u)
UnarchiveEvent == \E e \in RequestEventIds, u \in ArchiveActors : unarchiveEvent(e, u)
\* creation and update in the archiving scenario: no end time
PlainCreate == \E ev \in ScheduleBodies : createEvent(ev, NoEndTime)
PlainUpdate ==
    \E e \in RequestEventIds : updateEvent(e, FullEvent(FullEventA, Mitsu), NoEndTime)

\* visibility: public and private events created, updated by their creator
\* or admin with public and private bodies, deleted
VisibilityBodies ==
    {FullEvent(FullEventA, c) : c \in {Mitsu, admin}}
      \cup {FullEvent(FullEventB, c) : c \in {Mitsu, admin}}
CreateAny == \E ev \in VisibilityBodies : create_full_event(ev)
UpdateAny == \E e \in RequestEventIds, ev \in VisibilityBodies : update_event(e, ev)
DeleteOwn == \E e \in RequestEventIds : delete_event(e, Mitsu)
\* updates and messages in hosted events with a guest
FrameBodies == {FullEvent(FullEventB, c) : c \in {Mitsu, admin}}
FrameUpdate == \E e \in ChatEventIds, ev \in FrameBodies : update_event(e, ev)
GuestSend == \E e \in ChatEventIds, m \in Messages : send_chat_message(e, Zine, m)

\* profiles written and read under several spellings of a name
ProfileSpellings == {Mitsu, mitsu, Bo}
UpsertSpelled ==
    \E u \in ProfileSpellings, d \in ProfileData : upsert_user_profile(u, d)
GetProfile == \E u \in ProfileSpellings : get_user_profile(u)

\* a chat among three participants, sent statement by statement
ChatParty == {Mitsu, Zine, Kat}
PartyJoin == NoWriter /\ \E u \in ChatParty : join_full_event(1, u)
PartyLeave == NoWriter /\ \E u \in ChatParty : leave_event(1, u)
SendInsert ==
    \E c \in Connections, u \in ChatParty, m \in Messages : send_insert(c, 1, u, m)
SendSelect == \E c \in Connections : send_select(c)
SendNotify == \E c \in Connections : send_notify(c)
SendCommit == \E c \in Connections : send_commit(c)
SendFail == \E c \in Connections : send_fail(c)

\* registrations under way at the same time
RaceNames == {Mitsu, Bo, bo}
RegisterCheckStep ==
    \E c \in Connections, u \in RaceNames, p \in Passwords :
       register_check(c, u, p, None)
RegisterInsertStep == \E c \in Connections : register_insert(c)

\* follows among the people of a hosted chat
FollowHost == \E b \in {Zine, Kat} : add_follow(Mitsu, b)

(* --------------------------- specifications --------------------------- *)
\* event creation and participation
NextJoin == CreateEvent \/ JoinEvent \/ LeaveEvent
SpecJoin == Init /\ [][NextJoin]_vars

\* event administration: creation, update, deletion
NextEvents == CreateEvent \/ CrewJoin \/ UpdateEvent \/ DeleteEvent
SpecEvents == Init /\ [][NextEvents]_vars

\* participation, chat and notifications
NextChat == ChatJoin \/ ChatLeave \/ SendMessage \/ MarkRead
SpecChat == Init /\ [][NextChat]_vars

\* chat in hosted events
NextHostChat == HostCreate \/ GuestJoin \/ ChatLeave \/ SendMessage
SpecHostChat == Init /\ [][NextHostChat]_vars

\* identity
NextUsers == Register \/ Login \/ UpsertProfile
SpecUsers == Init /\ [][NextUsers]_vars

\* invitations
NextInvite == RotateInvite \/ InviteRegister
SpecInvite == Init /\ [][NextInvite]_vars

\* events with an end time
NextSchedule == ScheduleEvent \/ RescheduleEvent
SpecSchedule == Init /\ [][NextSchedule]_vars

\* visibility
NextVisibility == CreateAny \/ UpdateAny \/ DeleteOwn
SpecVisibility == Init /\ [][NextVisibility]_vars

\* updates of hosted events that have guests, messages and notifications
NextUpdateFrame == HostCreate \/ GuestJoin \/ GuestSend \/ FrameUpdate
SpecUpdateFrame == Init /\ [][NextUpdateFrame]_vars

\* archiving
NextArchive == PlainCreate \/ PlainUpdate \/ ArchiveEvent \/ UnarchiveEvent
SpecArchive == Init /\ [][NextArchive]_vars

\* following and unfollowing
NextFollows == Follow \/ Unfollow
SpecFollows == Init /\ [][NextFollows]_vars

\* profiles
NextProfiles == UpsertSpelled \/ GetProfile
SpecProfiles == Init /\ [][NextProfiles]_vars

\* chat requests that can fail between their statements
NextSendSteps ==
    PartyJoin \/ PartyLeave \/ SendInsert \/ SendSelect \/ SendNotify \/ SendCommit \/ SendFail
SpecSendSteps == Init /\ [][NextSendSteps]_vars

\* hosted events whose host and guests join, leave, update and chat
NextHostLeaves == HostCreate \/ PartyJoin \/ PartyLeave \/ FrameUpdate \/ GuestSend
SpecHostLeaves == Init /\ [][NextHostLeaves]_vars

\* the life of an event: creation, participation, update, deletion
NextLifecycle == HostCreate \/ JoinEvent \/ LeaveEvent \/ FrameUpdate \/ DeleteOwn
SpecLifecycle == Init /\ [][NextLifecycle]_vars

\* notifications over the life of an event: chat, leaving, deletion
NextNotify == HostCreate \/ GuestJoin \/ ChatLeave \/ GuestSend \/ MarkRead \/ DeleteOwn
SpecNotify == Init /\ [][NextNotify]_vars

\* concurrent registrations
NextRegisterRace == RegisterCheckStep \/ RegisterInsertStep
SpecRegisterRace == Init /\ [][NextRegisterRace]_vars

\* the core requests, run on either backend
NextBackends == HostCreate \/ GuestJoin \/ ChatLeave \/ GuestSend \/ MarkRead \/ FollowHost
SpecBackends == Init /\ [][NextBackends]_vars

(* ------------------------------- claims ------------------------------- *)
\* C1: a join never fails and leaves exactly one participant row for
\* (event, user); a join by a user who already has a row for the event, the
\* host of the event included, changes no row of any table, so the row
\* keeps its is_host.
C1_JoinIdempotent ==
    [][\A e \in RequestEventIds, u \in Members :
          (last'.op = "join" /\ join_full_event(e, u)) =>
             /\ last'.status = 200
             /\ Cardinality({p \in event_participants' :
                                p.event_id = e /\ p.username = u}) = 1
             /\ (\E p \in event_participants : p.event_id = e /\ p.username = u)
                   => tables' = tables]_vars

\* a repeat join by the host of event 1, the only participant row there is
C1_Witness ==
    /\ last.op = "join" /\ last.pre = 1
    /\ event_participants = {[event_id |-> 1, username |-> Mitsu, is_host |-> 1]}
    /\ \E r \in events : r.id = 1 /\ r.created_by = Mitsu

\* C2: a leave by a user who has no participant row for the event succeeds
\* and changes no table: participants, events, chat messages and
\* notifications stay as they were.
C2_LeaveAbsentIsNoOp ==
    [][\A e \in ChatEventIds, u \in Members :
          (last'.op = "leave" /\ leave_event(e, u)
             /\ ~(\E p \in event_participants : p.event_id = e /\ p.username = u))
          => (last'.status = 200 /\ tables' = tables)]_vars

\* such a leave, with events, other participants, messages and notifications stored
C2_Witness ==
    /\ last.op = "leave" /\ last.pre = 0 /\ last.status = 200
    /\ events # {} /\ event_participants # {}
    /\ chat_messages # <<>> /\ notifications # {}

\* C3: a send to an event whose participant rows, the sender's excluded,
\* number N stores the message and exactly N new notification rows, one per
\* such participant, unread, with the event's id and the new message's id;
\* the response reports notifications_created = N.
C3_SendFanOut ==
    [][\A e \in ChatEventIds, s \in Members, m \in Messages :
          (last'.op = "send" /\ send_chat_message(e, s, m)) =>
             LET others == {p \in event_participants :
                               p.event_id = e /\ p.username # s}
                 created == notifications' \ notifications
             IN /\ last'.status = 200
                /\ last'.ret = <<"Message sent", Cardinality(others)>>
                /\ chat_messages' = Append(chat_messages,
                                           [event_id |-> e, username |-> s, message |-> m])
                /\ notifications \subseteq notifications'
                /\ Cardinality(created) = Cardinality(others)
                /\ {n.user_id : n \in created} = {p.username : p \in others}
                /\ \A n \in created :
                      /\ n.event_id = e
                      /\ n.message_id = Len(chat_messages')
                      /\ ~PyBool(n.is_read)]_vars

\* C3 on the SQLite backend, where send_chat_message reads the message id
\* from cursor.lastrowid
C3_SendFanOutSqlite ==
    [][\A e \in ChatEventIds, s \in Members, m \in Messages :
          (last'.op = "send" /\ send_chat_message(e, s, m) /\ ~USE_POSTGRES) =>
             LET others == {p \in event_participants :
                               p.event_id = e /\ p.username # s}
                 created == notifications' \ notifications
             IN /\ last'.status = 200
                /\ last'.ret = <<"Message sent", Cardinality(others)>>
                /\ Len(chat_messages') = Len(chat_messages) + 1
                /\ notifications \subseteq notifications'
                /\ Cardinality(created) = Cardinality(others)
                /\ {n.user_id : n \in created} = {p.username : p \in others}
                /\ \A n \in created :
                      n.event_id = e /\ n.message_id = Len(chat_messages')
                        /\ ~PyBool(n.is_read)]_vars

\* the unread count get_notifications reports for one event (0 when absent)
UnreadCount(username, event_id) ==
    IF event_id \in DOMAIN get_notifications(username).by_event
    THEN get_notifications(username).by_event[event_id]
    ELSE 0

\* C4: a mark-read for (user, event) leaves the user no unread count for the
\* event, and leaves the user's counts for every other event and every other
\* user's whole unread report as they were.
C4_MarkReadOneEvent ==
    [][\A u \in Members, e \in ChatEventIds :
          (last'.op = "mark_read" /\ mark_notifications_read(u, e)) =>
             /\ e \notin DOMAIN (get_notifications(u).by_event)'
             /\ \A e2 \in ChatEventIds \ {e} :
                   UnreadCount(u, e2)' = UnreadCount(u, e2)
             /\ \A v \in Members \ {u} :
                   get_notifications(v)' = get_notifications(v)]_vars

\* a mark-read flipped a user's rows of one event while the user still has
\* unread rows in another
C4_Witness ==
    /\ last.op = "mark_read" /\ last.ret[2] > 0
    /\ \E u \in Members, e \in ChatEventIds, e2 \in ChatEventIds :
          /\ e # e2
          /\ \E n \in notifications :
                n.user_id = u /\ n.event_id = e /\ PyBool(n.is_read)
          /\ UnreadCount(u, e) = 0
          /\ UnreadCount(u, e2) > 0

\* the permission rule of the specification: the acting user is the stored
\* creator, or is "admin" in any letter case
ActsAsAdmin(x) == x # None /\ Lower(x) = admin
MayChange(event_id, x) ==
    x = EventRow(event_id).created_by \/ ActsAsAdmin(x)

\* C5: an update of a missing event fails with 404; an update of an existing
\* event by an acting user (the body's created_by, possibly absent) who is
\* neither the stored creator nor "admin" in any case fails with 403 and
\* changes no table; by the stored creator or by admin it succeeds.
C5_UpdatePermission ==
    [][\A e \in RequestEventIds, ev \in UpdateBodies :
          (last'.op = "update" /\ update_event(e, ev)) =>
             /\ e \notin EventIds => last'.status = 404
             /\ (e \in EventIds /\ ~MayChange(e, ev.created_by))
                   => (last'.status = 403 /\ tables' = tables)
             /\ (e \in EventIds /\ MayChange(e, ev.created_by))
                   => last'.status = 200]_vars

\* C5 for requests that carry a created_by
C5_UpdatePermissionNamed ==
    [][\A e \in RequestEventIds, ev \in UpdateBodies :
          (last'.op = "update" /\ update_event(e, ev) /\ ev.created_by # None) =>
             /\ e \notin EventIds => last'.status = 404
             /\ (e \in EventIds /\ ~MayChange(e, ev.created_by))
                   => (last'.status = 403 /\ tables' = tables)
             /\ (e \in EventIds /\ MayChange(e, ev.created_by))
                   => last'.status = 200]_vars

\* usernames a delete or an update may act as
ActingNames == DeleteActors \cup {Kat, EmptyStr}

\* C6: for every stored event and acting username, delete is permitted
\* exactly when update is, namely when the name is the stored creator or is
\* "admin" in any case; a forbidden delete answers 403 and leaves the event
\* row and every participant row in place.
C6_DeleteSameRuleAsUpdate ==
    /\ [](\A e \in EventIds, x \in ActingNames :
             /\ (DeleteStatus(e, x) = 200)
                  <=> (UpdateStatus(e, FullEvent(FullEventB, x)) = 200)
             /\ (DeleteStatus(e, x) = 200) <=> MayChange(e, x)
             /\ DeleteStatus(e, x) \in {200, 403})
    /\ [][\A e \in RequestEventIds, x \in DeleteActors :
             (last'.op = "delete" /\ delete_event(e, x)
                /\ e \in EventIds /\ ~MayChange(e, x))
             => (last'.status = 403 /\ tables' = tables)]_vars

\* a refused delete of an event that has participant rows
C6_Witness ==
    /\ last.op = "delete" /\ last.status = 403
    /\ \E r \in events : ParticipantRows(r.id) # {}

\* C7: a successful delete leaves no participant row of the event and no
\* event row: get_event_by_id answers 404 and get_all_events omits the id;
\* every other event row and every other event's participant rows stay.
C7_DeleteCascade ==
    [][\A e \in RequestEventIds, x \in DeleteActors :
          (last'.op = "delete" /\ delete_event(e, x) /\ last'.status = 200) =>
             /\ ParticipantRows(e)' = {}
             /\ e \notin EventIds'
             /\ get_event_by_id(e)'.status = 404
             /\ e \notin get_all_events'
             /\ events' = {r \in events : r.id # e}
             /\ event_participants' = {p \in event_participants : p.event_id # e}
             /\ UNCHANGED <<users, user_profiles, chat_messages, notifications>>]_vars

\* a delete removed an event with participant rows and another event with
\* participant rows is still stored
C7_Witness ==
    /\ last.op = "delete" /\ last.status = 200 /\ last.pre > 0
    /\ \E r \in events : Cardinality(ParticipantRows(r.id)) > 1

\* two usernames that are equal ignoring letter case
SameName(a, b) == Lower(a) = Lower(b)

\* C8: no two user rows have usernames equal ignoring case, and a register
\* whose username equals an existing row's username ignoring case (a seeded,
\* a registered or a lazily created row) fails with 400, "Username already
\* exists" once its invite code is accepted, and inserts no row.
C8_CaseInsensitiveUnique ==
    /\ [](\A r1, r2 \in users : SameName(r1.username, r2.username) => r1 = r2)
    /\ [][\A u \in LoginNames, p \in Passwords, c \in InviteCodes :
             (last'.op = "register" /\ last'.arg = u /\ register(u, p, c)
                /\ \E r \in users : SameName(r.username, u))
             => /\ last'.status = 400
                /\ tables' = tables
                /\ InviteCodeOf(c) = EmptyStr
                      => last'.detail = "Username already exists"]_vars

\* a register refused because a lazily created row has the same username in
\* another letter case
C8_Witness ==
    /\ last.op = "register" /\ last.detail = "Username already exists"
    /\ \E r \in users : /\ r.username # last.arg
                        /\ SameName(r.username, last.arg)
                        /\ r.password_hash = NoHash

\* C9: for every registered (username, password) and every casing of the
\* username, login with that password answers 200 with the id of that user
\* and the username as stored at registration.
C9_LoginCanonicalName ==
    \A t \in registered, u \in LoginNames :
       SameName(u, t.username)
          => LoginResponses(u, t.password)
                = {[status |-> 200, detail |-> "", ret |-> <<t.id, t.username>>]}

\* a login in another casing than the registered one returned the stored name
C9_Witness ==
    /\ last.op = "login" /\ last.status = 200
    /\ \E t \in registered : /\ last.arg # t.username
                             /\ SameName(last.arg, t.username)
                             /\ last.ret = <<t.id, t.username>>

\* C10: login answers 404 when no user row matches the username ignoring
\* case, 401 when a matching row has no password hash or one that does not
\* verify the password; a login changes no stored data.
C10_LoginFailures ==
    [][\A u \in LoginNames, p \in Passwords :
          (last'.op = "login" /\ last'.arg = u /\ login(u, p)) =>
             /\ tables' = tables
             /\ (\A r \in users : ~SameName(r.username, u)) => last'.status = 404
             /\ \A r \in users :
                   (SameName(r.username, u)
                      /\ (r.password_hash = NoHash \/ ~Verify(p, r.password_hash)))
                   => last'.status = 401
             /\ last'.status \in {401, 404} => last'.ret = <<>>]_vars

\* a login refused with 401 on a row without password hash, in another
\* casing than the stored one
C10_Witness ==
    /\ last.op = "login" /\ last.status = 401
    /\ \E r \in users : /\ r.password_hash = NoHash
                        /\ r.username # last.arg
                        /\ SameName(r.username, last.arg)

\* a login refused with 404
C10_WitnessNotFound ==
    /\ last.op = "login" /\ last.status = 404
    /\ \A r \in users : ~SameName(r.username, last.arg)

\* C11: a register with a non-empty invite code that no user row holds
\* exactly as supplied fails with 400 "Invalid invite code" and inserts no
\* row, also when the username exists; a successful register leaves every
\* existing row, the inviter's code included, as it was.
C11_InviteExact ==
    [][\A u \in InviteRegisterNames, c \in SuppliedCodes :
          (last'.op = "register" /\ last'.arg = u /\ register(u, "pw", c)) =>
             /\ (c # None /\ c # EmptyStr /\ ~\E r \in users : r.invite_code = c)
                   => /\ last'.status = 400
                      /\ last'.detail = "Invalid invite code"
                      /\ users' = users
             /\ last'.status = 200 => users \subseteq users']_vars

\* C11 amended: the supplied code is stripped of surrounding whitespace
\* first; a code that is non-empty after stripping and that no user row
\* holds exactly fails with 400 "Invalid invite code" and inserts no row,
\* also when the username exists; a successful register adds one row and
\* leaves every existing row, the inviter's code included, as it was.
C11_InviteStripped ==
    [][\A u \in InviteRegisterNames, c \in SuppliedCodes :
          (last'.op = "register" /\ last'.arg = u /\ register(u, "pw", c)) =>
             /\ (c # None /\ Strip(c) # EmptyStr
                   /\ ~\E r \in users : r.invite_code = Strip(c))
                   => /\ last'.status = 400
                      /\ last'.detail = "Invalid invite code"
                      /\ tables' = tables
             /\ last'.status = 200
                   => /\ users \subseteq users'
                      /\ Cardinality(users' \ users) = 1
                      /\ \A r \in users' \ users : r.username = u]_vars

\* an unknown code was refused although the username exists, while a user
\* holds another code
C11_Witness ==
    /\ last.op = "register" /\ last.detail = "Invalid invite code"
    /\ \E r \in users : SameName(r.username, last.arg)
    /\ \E r \in users : r.invite_code # None

\* a register succeeded while its inviter holds a code and another user's
\* code was rotated away from the first generated code
C11_WitnessAccepted ==
    /\ last.op = "register" /\ last.status = 200
    /\ \E r \in users : r.invite_code = InviteB
    /\ \A r \in users : r.invite_code # InviteA

\* the stored data of events, their later columns included
stored == <<tables, event_ext>>

C12_WitnessCreate ==
    /\ last.op = "createEvent" /\ last.status = 400 /\ nextEventId = 2

\* minutes since midnight of the clock times in use
Minutes(t) ==
    CASE t = "02:00" -> 120 [] t = "19:00" -> 1140 [] t = "22:30" -> 1350

Following(u) == {f[2] : f \in {g \in follows : g[1] = u}}

C14_FollowingIsSymmetricSqlite ==
    ~USE_POSTGRES =>
       \A u \in FollowNames :
          get_follows(u).body = Following(u) \cup {v \in FollowNames : u \in Following(v)}

C15_UnfollowEdges ==
    [][\A a \in FollowNames, b \in FollowNames :
          (last'.op = "unfollow" /\ remove_follow(b, a)) =>
             /\ last'.status = 200
             /\ follows' = follows \ {<<b, a>>}
             /\ a # b => ((<<a, b>> \in follows) = (<<a, b>> \in follows'))]_vars

\* the stored is_public of an event, as a reader sees it
IsPublic(e) == PyBool(EventRow(e).is_public)

UpdatableColumns ==
    {"name", "description", "location", "venue", "address", "coordinates", "date",
     "time", "category", "languages", "capacity", "image_url"}

\* C19: a successful update, by the creator or by admin, changes in the
\* event's row at most the updatable columns (is_public, created_by,
\* is_featured, event_type, template_event_id and id stay), and changes no
\* other event row and no user, profile, participant, chat-message,
\* notification or follow row; after an update by admin the creator is who
\* it was.
C19_UpdateFrame ==
    [][\A e \in ChatEventIds, ev \in FrameBodies :
          (last'.op = "update" /\ last'.status = 200 /\ last'.ret[1] = e
             /\ update_event(e, ev)) =>
             /\ \E new \in events' :
                   /\ new.id = e
                   /\ events' \ {new} = events \ {EventRow(e)}
                   /\ \A col \in (DOMAIN new) \ UpdatableColumns :
                         new[col] = EventRow(e)[col]
                   /\ new.created_by = EventRow(e).created_by
                   /\ new.is_public = EventRow(e).is_public
                   /\ new.is_featured = EventRow(e).is_featured
             /\ UNCHANGED <<users, nextUserId, user_profiles, nextEventId,
                            event_participants, chat_messages, notifications, follows>>]_vars

\* an event created by Mitsu, with a guest, a message and a notification,
\* was updated with the private, featured body and is still public, not
\* featured and Mitsu's
C19_Witness ==
    /\ last.op = "update" /\ last.status = 200
    /\ chat_messages # <<>> /\ notifications # {}
    /\ \E r \in events :
          /\ r.name = "Concert" /\ r.created_by = Mitsu
          /\ PyBool(r.is_public) /\ ~PyBool(r.is_featured)
          /\ Cardinality(ParticipantRows(r.id)) = 2

\* C18: a create_full_event with a non-empty created_by = u leaves the row
\* (id, u) with is_host set, so that get_event_by_id(id) has host u and u is
\* neither participant nor crew; with created_by absent the new event has
\* no participant row and no host; whatever joins came before.
C18_CreatorIsHost ==
    [][\A ev \in FullEvents :
          (last'.op = "create" /\ create_full_event(ev)) =>
             \E id \in 1..(MaxEvents + 1) :
                /\ id = last'.ret[1]
                /\ Truthy(ev.created_by) =>
                      /\ \E p \in event_participants' :
                            /\ p.event_id = id /\ p.username = ev.created_by
                            /\ p.is_host # 0
                      /\ get_event_by_id(id)'.host = {ev.created_by}
                      /\ ev.created_by \notin get_event_by_id(id)'.participants
                      /\ ev.created_by \notin get_event_by_id(id)'.crew
                /\ ~Truthy(ev.created_by) =>
                      /\ ParticipantRows(id)' = {}
                      /\ get_event_by_id(id)'.host = {}]_vars

\* C18 for a creation whose id has no participant row yet
C18_CreatorIsHostOnFreshId ==
    [][\A ev \in FullEvents :
          (last'.op = "create" /\ create_full_event(ev)
             /\ ParticipantRows(nextEventId) = {}) =>
             \E id \in 1..(MaxEvents + 1) :
                /\ id = last'.ret[1]
                /\ Truthy(ev.created_by) =>
                      /\ ParticipantRows(id)'
                            = {[event_id |-> id, username |-> ev.created_by, is_host |-> 1]}
                      /\ get_event_by_id(id)'.host = {ev.created_by}
                      /\ get_event_by_id(id)'.participants = {}
                /\ ~Truthy(ev.created_by) =>
                      /\ ParticipantRows(id)' = {}
                      /\ get_event_by_id(id)'.host = {}]_vars

\* C20: mark_notifications_read returns the number of the user's unread
\* rows (of the event, when one is given) that it flipped to read; a second
\* identical call right after returns 0 and changes nothing.
C20_MarkReadCountsFlipped ==
    [][\A u \in Members, e \in ChatEventIds \cup {NoEventId} :
          (last'.op = "mark_read" /\ mark_notifications_read(u, e)) =>
             /\ last'.ret[2]
                  = Cardinality({n \in notifications :
                                    /\ n.user_id = u
                                    /\ (e # NoEventId => n.event_id = e)
                                    /\ ~PyBool(n.is_read)})
             /\ last'.ret[2]
                  = Cardinality({n \in notifications' : PyBool(n.is_read)})
                      - Cardinality({n \in notifications : PyBool(n.is_read)})]_vars

\* C20 on what the UPDATE's row count is: every row of the user (of the
\* event, when one is given), read or unread; all of them are read after it
C20_MarkReadCountsMatched ==
    [][\A u \in Members, e \in ChatEventIds \cup {NoEventId} :
          (last'.op = "mark_read" /\ mark_notifications_read(u, e)) =>
             /\ last'.ret[2]
                  = Cardinality({n \in notifications :
                                    /\ n.user_id = u
                                    /\ (e # NoEventId => n.event_id = e)})
             /\ \A n \in notifications' :
                   (n.user_id = u /\ (e # NoEventId => n.event_id = e))
                      => PyBool(n.is_read)]_vars

\* C21: there is at most one profile row per username ignoring case, and
\* after upsert_user_profile(u, d) every spelling of u reads back exactly d
\* (the last write wins).
C21_ProfileLastWriteWins ==
    /\ [](\A a \in user_profiles, b \in user_profiles :
             SameName(a.username, b.username) => a = b)
    /\ [][\A u \in ProfileSpellings, d \in ProfileData :
             (last'.op = "upsert_profile" /\ upsert_user_profile(u, d)) =>
                \A v \in ProfileSpellings :
                   SameName(u, v) =>
                      \A resp \in ProfileResponses(v)' :
                         resp.status = 200 /\ resp.ret = <<d>>]_vars

\* C21 per exact spelling: one profile row per username as spelled, holding
\* the document of the last upsert under that spelling; other rows stay
C21_ProfileLastWriteWinsPerSpelling ==
    /\ [](\A a \in user_profiles, b \in user_profiles :
             a.username = b.username => a = b)
    /\ [][\A u \in ProfileSpellings, d \in ProfileData :
             (last'.op = "upsert_profile" /\ upsert_user_profile(u, d)) =>
                /\ \E r \in user_profiles' :
                      /\ r.username = u /\ JsonLoads(r.profile_json) = d
                      /\ user_profiles' \ {r} = {q \in user_profiles : q.username # u}
                /\ [status |-> 200, detail |-> "", ret |-> <<d>>] \in ProfileResponses(u)']_vars

\* C22: no two user rows hold the same non-null invite_code; a
\* create_or_rotate_invite_code for an existing user (found ignoring case)
\* returns and stores a code no user row held before and changes that one
\* row only; for an unknown user it answers 404 and changes nothing.
C22_InviteCodesUnique ==
    /\ [](\A a \in users, b \in users :
             (a.invite_code # None /\ a.invite_code = b.invite_code) => a = b)
    /\ [][\A u \in InviteOwners, code \in GeneratedCodes :
             (last'.op = "invite" /\ last'.arg = u
                /\ create_or_rotate_invite_code(u, code)) =>
                IF UsersNamed(u) = {}
                THEN /\ last'.status = 404 /\ last'.detail = "User not found"
                     /\ UNCHANGED stored
                ELSE /\ last'.status = 200 /\ last'.ret = <<code>>
                     /\ UsersWithCode(code) = {}
                     /\ \E r \in UsersNamed(u) :
                           users' = (users \ {r}) \cup {[r EXCEPT !.invite_code = code]}
                     /\ UNCHANGED <<nextUserId, user_profiles, events, nextEventId,
                                    event_participants, chat_messages, notifications,
                                    follows, event_ext>>]_vars

\* a rotation for Bo that found the row of bo, while another user holds a code
C22_Witness ==
    /\ last.op = "invite" /\ last.status = 200 /\ last.arg = Bo
    /\ \E r \in users :
          /\ r.username = bo /\ r.invite_code = last.ret[1]
          /\ \E q \in users : q.invite_code \notin {None, r.invite_code}

\* a rotation for a user that does not exist
C22_WitnessNotFound == last.op = "invite" /\ last.status = 404

\* C23: when a send_chat_message request fails after its INSERT INTO
\* chat_messages and before its fan-out is complete, the stored tables hold
\* the chat message with the notification rows inserted so far (none or
\* some of them).
C23_FailedSendKeepsMessage ==
    [][\A c \in Connections :
          (requests[c].op = "send" /\ last'.op = "send" /\ last'.status = 500
             /\ requests'[c] = Idle) =>
             /\ chat_messages' = Append(chat_messages, MessageRow(requests[c]))
             /\ notifications' = notifications \cup requests[c].rows]_vars

\* C23 as the connection behaves: a send request that fails after its
\* INSERT INTO chat_messages, at any later statement, stores neither the
\* message nor any notification row; the message and its notification rows
\* are stored in one step, by the commit of a request that answers 200.
C23_FailedSendStoresNothing ==
    [][/\ \A c \in Connections :
             (requests[c].op = "send" /\ last'.op = "send" /\ last'.status = 500
                /\ requests'[c] = Idle) => UNCHANGED tables
       /\ (chat_messages' # chat_messages \/ notifications' # notifications) =>
             \E c \in Connections :
                /\ requests[c].op = "send" /\ last'.status = 200
                /\ chat_messages' = Append(chat_messages, MessageRow(requests[c]))
                /\ notifications' \ notifications
                     = {[user_id |-> u, event_id |-> requests[c].event_id,
                         message_id |-> Len(chat_messages'), is_read |-> DbBool(FALSE)]
                        : u \in requests[c].participants}]_vars

\* a send failed after one of its two notification rows was inserted
C23_Witness ==
    /\ last.op = "send" /\ last.status = 500 /\ last.pre = 1
    /\ Cardinality(ParticipantRows(1)) = 3
    /\ chat_messages = <<>> /\ notifications = {}

\* C24: when the host of an event leaves, the event has no host: the other
\* participant rows stay as they are, none with is_host set, and created_by
\* stays, so the former host still passes the update and the delete
\* permission tests.  An event without a host never gets one again by a
\* join, leave, update or send, and a join of a hostless event by its
\* creator leaves a row with is_host = 0.
C24_HostLeavesForGood ==
    [][/\ \A e \in ChatEventIds, u \in ChatParty :
             (last'.op = "leave" /\ e \in EventIds /\ HostNames(e) = {u}
                /\ leave_event(e, u)) =>
                /\ get_event_by_id(e)'.host = {}
                /\ ParticipantRows(e)' = {p \in ParticipantRows(e) : p.username # u}
                /\ \A p \in ParticipantRows(e)' : p.is_host = 0
                /\ EventRow(e)' = EventRow(e)
                /\ UpdateStatus(e, FullEvent(FullEventB, u))' = 200
                /\ DeleteStatus(e, u)' = 200
       /\ \A e \in EventIds :
             HostNames(e) = {} => (e \in EventIds' /\ get_event_by_id(e)'.host = {})
       /\ \A e \in EventIds :
             (last'.op = "join" /\ HostNames(e) = {}
                /\ join_full_event(e, EventRow(e).created_by)) =>
                /\ [event_id |-> e, username |-> EventRow(e).created_by, is_host |-> 0]
                      \in event_participants'
                /\ EventRow(e).created_by \in get_event_by_id(e)'.crew]_vars

\* the creator left the event, joined it again and then updated it, after a
\* message was sent: the event has no host and the creator is in its crew
C24_Witness ==
    /\ last.op = "update" /\ last.status = 200
    /\ chat_messages # <<>>
    /\ \E r \in events :
          /\ r.created_by = Mitsu /\ r.name = "Concert"
          /\ get_event_by_id(r.id).host = {}
          /\ get_event_by_id(r.id).crew = {Mitsu, Zine}

\* C25: an event id has at most one participant row with is_host set, and
\* the username of such a row is the created_by of the event of that id.
C25_OneHostTheCreator ==
    /\ \A p \in event_participants, q \in event_participants :
          (p.event_id = q.event_id /\ p.is_host # 0 /\ q.is_host # 0) => p = q
    /\ \A p \in event_participants :
          p.is_host # 0 =>
             /\ p.event_id \in EventIds
             /\ p.username = EventRow(p.event_id).created_by

\* an updated event with its host and a crew member, after another event
\* was deleted
C25_Witness ==
    /\ last.op = "delete" /\ last.status = 200
    /\ \E e \in EventIds :
          /\ EventRow(e).name = "Concert"
          /\ HostNames(e) = {Mitsu} /\ CrewNames(e) = {Zine}

\* C26: no step removes or changes a chat_messages row, no step removes a
\* notifications row, and a notification that is read stays read; a user's
\* unread count for an event rises only by a send_chat_message of another
\* user and falls only by a mark_notifications_read of that user.
C26_NotificationsMonotone ==
    [][/\ Len(chat_messages') >= Len(chat_messages)
       /\ SubSeq(chat_messages', 1, Len(chat_messages)) = chat_messages
       /\ \A n \in notifications :
             \E m \in notifications' :
                /\ m.user_id = n.user_id /\ m.event_id = n.event_id
                /\ m.message_id = n.message_id
                /\ PyBool(n.is_read) => PyBool(m.is_read)
       /\ \A u \in Members, e \in ChatEventIds :
             notifications' # notifications =>
             /\ UnreadCount(u, e)' > UnreadCount(u, e) =>
                   /\ last'.op = "send" /\ last'.status = 200
                   /\ Len(chat_messages') = Len(chat_messages) + 1
                   /\ chat_messages'[Len(chat_messages')].username # u
                   /\ chat_messages'[Len(chat_messages')].event_id = e
             /\ UnreadCount(u, e)' < UnreadCount(u, e) =>
                   \E e2 \in {e, NoEventId} : mark_notifications_read(u, e2)]_vars

\* the event was deleted: the host's notifications, one read and one
\* unread, and the guest's messages are still stored
C26_Witness ==
    /\ last.op = "delete" /\ last.status = 200
    /\ events = {} /\ event_participants = {}
    /\ Len(chat_messages) = 2
    /\ \E n \in notifications : n.user_id = Mitsu /\ PyBool(n.is_read)
    /\ \E n \in notifications : n.user_id = Mitsu /\ ~PyBool(n.is_read)

\* C27: the event_id of every participant row is the id of an events row.
C27_ParticipantsOfExistingEvents ==
    \A p \in event_participants : p.event_id \in EventIds

\* C27 for the steps other than a join: a step that leaves a participant
\* row of an event that does not exist keeps or adds it by a join; a delete
\* leaves no row of the deleted event
C27_OrphansOnlyByJoin ==
    [][/\ (\E p \in event_participants' \ event_participants : p.event_id \notin EventIds')
             => last'.op = "join"
       /\ \A e \in EventIds \ EventIds' : ParticipantRows(e)' = {}]_vars
\* the users rows without a password hash that carry the name, ignoring case
StubRows(username) ==
    {r \in users : r.password_hash = NoHash /\ SameName(r.username, username)}

\* C28: an upsert_user_profile for a name that has no users row adds a row
\* of that name with no password hash; such a row is never changed or
\* removed, and while it is there every login under a spelling of its name
\* answers 401 and every register under a spelling of its name answers 400
\* (Username already exists, when no invite code is supplied) and adds no
\* row.
C28_StubUserLockedOut ==
    [][/\ \A u \in ProfileNames, d \in ProfileData :
             (last'.op = "upsert_profile" /\ UsersNamed(u) = {}
                /\ upsert_user_profile(u, d)) =>
                \E r \in users' :
                   /\ r.username = u /\ r.password_hash = NoHash
                   /\ users' = users \cup {r} /\ r \notin users
       /\ \A r \in users : r.password_hash = NoHash => r \in users'
       /\ \A u \in LoginNames :
             (last'.arg = u /\ StubRows(u) # {}) =>
                /\ \A p \in Passwords :
                      (last'.op = "login" /\ login(u, p)) =>
                         /\ last'.status = 401
                         /\ last'.detail = "Invalid credentials"
                /\ \A p \in Passwords, c \in InviteCodes :
                      (last'.op = "register" /\ register(u, p, c)) =>
                         /\ last'.status = 400
                         /\ InviteCodeOf(c) = EmptyStr
                               => last'.detail = "Username already exists"
                         /\ users' = users]_vars

\* a registration as Bo refused because of the stub row bo
C28_Witness ==
    /\ last.op = "register" /\ last.arg = Bo /\ last.status = 400
    /\ last.detail = "Username already exists"
    /\ \E r \in users : r.username = bo /\ r.password_hash = NoHash

\* a login as Bo refused because of the stub row bo
C28_WitnessLogin ==
    /\ last.op = "login" /\ last.arg = Bo /\ last.status = 401
    /\ \E r \in users : r.username = bo /\ r.password_hash = NoHash

\* C29: however the statements of concurrent register requests interleave,
\* no two users rows have names equal ignoring case, and of the
\* registrations of spellings of one name at most one succeeds.
C29_ConcurrentRegisterUnique ==
    /\ \A a \in users, b \in users : SameName(a.username, b.username) => a = b
    /\ \A a \in registered, b \in registered :
          SameName(a.username, b.username) => a = b

\* C29 for the spelling itself, which the UNIQUE constraint of the column
\* covers: no two users rows have the same username, and of the
\* registrations of one spelling at most one succeeds
C29_ConcurrentRegisterUniqueAsSpelled ==
    /\ \A a \in users, b \in users : a.username = b.username => a = b
    /\ \A a \in registered, b \in registered : a.username = b.username => a = b

\* the unread rows of a user with the is_read column read as a Python bool
UnreadOf(username) ==
    {n \in notifications : n.user_id = username /\ ~PyBool(n.is_read)}

\* the core requests other than send and the follows list have one outcome
\* on both backends: they answer 200, the rows of a create read back as the
\* same booleans, the unread report counts the rows whose is_read reads
\* false, and a mark-read leaves the rows it names reading true
BackendsAgreeOnRows ==
    /\ last'.op \in {"create", "join", "leave", "mark_read", "follow"}
          => last'.status = 200
    /\ \A r \in events' \ events :
          /\ PyBool(r.is_public) = FullEventA.is_public
          /\ PyBool(r.is_featured) = FullEventA.is_featured
    /\ \A u \in Members :
          /\ get_notifications(u)'.total_unread = Cardinality(UnreadOf(u)')
          /\ DOMAIN (get_notifications(u).by_event)' = {n.event_id : n \in UnreadOf(u)'}
    /\ \A u \in Members, e \in ChatEventIds \cup {NoEventId} :
          (last'.op = "mark_read" /\ mark_notifications_read(u, e)) =>
             /\ \A n \in UnreadOf(u)' : e # NoEventId /\ n.event_id # e
             /\ \A v \in Members \ {u} : UnreadOf(v)' = UnreadOf(v)

\* C30: a core request has the same response and the same effect on the
\* stored rows whichever backend is selected: besides the above, a send
\* answers 200 with the number of other participants, stores the message
\* and one unread notification for each of them, and the follows list of a
\* user answers 200 with the names of the user's follows rows.
C30_BackendsEquivalent ==
    /\ [](\A u \in {Mitsu, Zine, Kat} :
             get_follows(u) = [status |-> 200, body |-> FollowRows(u)])
    /\ [][/\ BackendsAgreeOnRows
          /\ \A e \in ChatEventIds, m \in Messages :
                (last'.op = "send" /\ send_chat_message(e, Zine, m)) =>
                   /\ last'.status = 200
                   /\ last'.ret = <<"Message sent", Cardinality(Recipients(e, Zine))>>
                   /\ chat_messages' = Append(chat_messages,
                                              [event_id |-> e, username |-> Zine,
                                               message |-> m])
                   /\ {<<n.user_id, n.event_id, n.message_id, PyBool(n.is_read)>>
                          : n \in notifications' \ notifications}
                        = {<<u, e, Len(chat_messages'), FALSE>> : u \in Recipients(e, Zine)}]_vars

\* C30 without send and the follows list: the other core requests have the
\* same outcome on both backends
C30_BackendsEquivalentOnRows ==
    [][BackendsAgreeOnRows]_vars

====
